---------------------------- MODULE Spec2Model ----------------------------
(***************************************************************************)
(* The mixed text/math markup pipeline of PRUEBOMETRO                      *)
(* (src/geminiService.ts, the mathUtils part): cleanLatex (the             *)
(* normalizer), processMathForWord (the inline renderer) and               *)
(* splitTextAndMath (the run splitter).                                    *)
(*                                                                         *)
(* A JavaScript string is a sequence of one-character strings.  Literal    *)
(* markup that the code emits and that holds neither "$" nor a newline is  *)
(* one element of the sequence (a tag), which the regular expressions      *)
(* treat as an ordinary character.                                         *)
(***************************************************************************)
EXTENDS Integers, Sequences, FiniteSets, TLC

VARIABLES
    content,    \* the string the operations are applied to
    op,         \* the operation that ran last
    result,     \* the string it returned (cleanLatex, processMathForWord)
    shown,      \* processMathForWord: its result after the $$...$$ replace
    segments,   \* the array splitTextAndMath returned
    calls,      \* the katex.renderToString calls of processMathForWord, in order
    document,   \* handleExportWord: the paragraphs made of a section content
    selectionStart,   \* DocumentPreview: lastFocusedRef.current.selectionStart
    activeMathBlock,  \* DocumentPreview: the fragment under the cursor, or none
    isFileProtocol,   \* App: the page was opened from a file: URL
    showHelp,         \* App: the help dialog is open
    selectedOA,       \* App: a learning objective is selected
    isGenerating,     \* App: a generation is under way
    error,            \* App: the error message shown, or none
    evaluation,       \* App: the current evaluation
    requests,         \* the generateEvaluation calls and how each has ended
    toast             \* App: the message of the toast shown last, or none

\* the state of App that handleGenerate reads and writes
appVars ==
    <<isFileProtocol, showHelp, selectedOA, isGenerating, error, evaluation, requests, toast>>

\* the state of the components outside the markup functions
uiVars == <<document, selectionStart, activeMathBlock, appVars>>

vars == <<content, op, result, shown, segments, calls, uiVars>>

BS == "\\"
NL == "\n"
DL == "$"
SP == " "

(***************************************************************************)
(* String helpers: what the JavaScript string methods used by the code do. *)
(***************************************************************************)

\* s.startsWith(pat, i) with 1-based i
StartsAt(s, i, pat) ==
    /\ i >= 1
    /\ i + Len(pat) - 1 <= Len(s)
    /\ \A k \in 1..Len(pat) : s[i + k - 1] = pat[k]

\* the least position >= from where pat occurs in s, 0 when there is none
FindAt(s, from, pat) ==
    LET hits == {k \in from..(Len(s) - Len(pat) + 1) : StartsAt(s, k, pat)}
    IN  IF hits = {} THEN 0 ELSE CHOOSE k \in hits : \A h \in hits : k <= h

Contains(s, pat) == FindAt(s, 1, pat) > 0

\* number of (non-overlapping, left to right) occurrences of pat in s
RECURSIVE CountFrom(_, _, _)
CountFrom(s, i, pat) ==
    LET k == FindAt(s, i, pat)
    IN  IF k = 0 THEN 0 ELSE 1 + CountFrom(s, k + Len(pat), pat)

Count(s, pat) == CountFrom(s, 1, pat)

\* String.prototype.replace(/pat/g, rep) for a literal pattern
RECURSIVE ReplaceLiteralFrom(_, _, _, _)
ReplaceLiteralFrom(s, i, pat, rep) ==
    IF i > Len(s) THEN <<>>
    ELSE IF StartsAt(s, i, pat)
         THEN rep \o ReplaceLiteralFrom(s, i + Len(pat), pat, rep)
         ELSE <<s[i]>> \o ReplaceLiteralFrom(s, i + 1, pat, rep)

ReplaceLiteral(s, pat, rep) == ReplaceLiteralFrom(s, 1, pat, rep)

\* The replacement-string rules of String.prototype.replace: "$$" inserts
\* one "$", "$1" inserts the first capture group.
RECURSIVE ExpandTemplateFrom(_, _, _)
ExpandTemplateFrom(t, i, g1) ==
    IF i > Len(t) THEN <<>>
    ELSE IF StartsAt(t, i, <<DL, DL>>)
         THEN <<DL>> \o ExpandTemplateFrom(t, i + 2, g1)
    ELSE IF StartsAt(t, i, <<DL, "1">>)
         THEN g1 \o ExpandTemplateFrom(t, i + 2, g1)
    ELSE <<t[i]>> \o ExpandTemplateFrom(t, i + 1, g1)

ExpandTemplate(t, g1) == ExpandTemplateFrom(t, 1, g1)

\* The inputs of a check: every concatenation of at most n chunks of C.
RECURSIVE Words(_, _)
Words(C, n) ==
    IF n = 0 THEN {<<>>}
    ELSE LET W == Words(C, n - 1) IN W \cup {c \o w : c \in C, w \in W}

(***************************************************************************)
(* cleanLatex, src/geminiService.ts:219-241                                *)
(***************************************************************************)

\* replace(/open([\s\S]+?)close/g, template) for two-character literals
\* open and close: a match at i needs a group of at least one character,
\* and the non-greedy group ends at the first close that follows it.
RECURSIVE ReplaceDelimitedFrom(_, _, _, _, _)
ReplaceDelimitedFrom(s, i, open, close, template) ==
    IF i > Len(s) THEN <<>>
    ELSE LET k == IF StartsAt(s, i, open) THEN FindAt(s, i + 3, close) ELSE 0
         IN  IF k > 0
             THEN ExpandTemplate(template, SubSeq(s, i + 2, k - 1))
                      \o ReplaceDelimitedFrom(s, k + 2, open, close, template)
             ELSE <<s[i]>> \o ReplaceDelimitedFrom(s, i + 1, open, close, template)

BlockOpen == <<BS, "[">>
BlockClose == <<BS, "]">>
InlineOpen == <<BS, "(">>
InlineClose == <<BS, ")">>

\* '\n$$$1$$\n'
BlockTemplate == <<NL, DL, DL, DL, "1", DL, DL, NL>>
\* '$$$1$$'
InlineTemplate == <<DL, DL, DL, "1", DL, DL>>

NormalizeBlock(s) == ReplaceDelimitedFrom(s, 1, BlockOpen, BlockClose, BlockTemplate)

\* a slip: the inline step uses the replacement string of the display step
NormalizeInlineFlanked(s) ==
    ReplaceDelimitedFrom(s, 1, InlineOpen, InlineClose, BlockTemplate)

\* a slip: '$$ $1 $$', a blank on each side of the expression
NormalizeInlineSpaced(s) ==
    ReplaceDelimitedFrom(s, 1, InlineOpen, InlineClose, <<DL, DL, SP, DL, "1", SP, DL, DL>>)

NormalizeInline(s) == ReplaceDelimitedFrom(s, 1, InlineOpen, InlineClose, InlineTemplate)

Bold == <<BS, "b", "o", "l", "d", "{">>
Mathbf == <<BS, "m", "a", "t", "h", "b", "f", "{">>
Sen == <<BS, "s", "e", "n">>
Sin == <<BS, "s", "i", "n">>
Tg == <<BS, "t", "g">>
Tan == <<BS, "t", "a", "n">>

\* a slip: the \sen entry of the table is missing
FixCommandsNoSen(s) == ReplaceLiteral(ReplaceLiteral(s, Bold, Mathbf), Tg, Tan)

FixCommands(s) ==
    ReplaceLiteral(ReplaceLiteral(ReplaceLiteral(s, Bold, Mathbf), Sen, Sin), Tg, Tan)

cleanLatex(c) ==
    IF c = <<>> THEN <<>>
    ELSE FixCommands(NormalizeInline(NormalizeBlock(c)))

(***************************************************************************)
(* The price heuristic shared by the renderer and the splitter:            *)
(* /^\s?\d+([.,]\d+)?$/.test(tex.trim()), src/geminiService.ts:274, 320    *)
(***************************************************************************)

Whitespace == {SP, NL, "\t", "\r"}
Digit == {"0", "1", "2", "3", "4", "5", "6", "7", "8", "9"}

RECURSIVE TrimStart(_)
TrimStart(s) ==
    IF s # <<>> /\ Head(s) \in Whitespace THEN TrimStart(Tail(s)) ELSE s

RECURSIVE TrimEnd(_)
TrimEnd(s) ==
    IF s # <<>> /\ s[Len(s)] \in Whitespace THEN TrimEnd(SubSeq(s, 1, Len(s) - 1)) ELSE s

\* String.prototype.trim
Trim(s) == TrimEnd(TrimStart(s))

AllDigits(s) == s # <<>> /\ \A k \in 1..Len(s) : s[k] \in Digit

\* \d+([.,]\d+)? over the whole of s
MatchesNumber(s) ==
    \/ AllDigits(s)
    \/ \E p \in 2..(Len(s) - 1) :
          /\ s[p] \in {".", ","}
          /\ AllDigits(SubSeq(s, 1, p - 1))
          /\ AllDigits(SubSeq(s, p + 1, Len(s)))

\* ^\s?\d+([.,]\d+)?$
MatchesPrice(s) ==
    \/ MatchesNumber(s)
    \/ s # <<>> /\ Head(s) \in Whitespace /\ MatchesNumber(Tail(s))

\* a slip: the pattern is tested on tex, not on tex.trim()
IsPriceUntrimmed(tex) == MatchesPrice(tex)

IsPrice(tex) == MatchesPrice(Trim(tex))

(***************************************************************************)
(* The two patterns of the renderer and the splitter.  Each gives the      *)
(* position of the last character of the match that starts at i, 0 when    *)
(* none starts there.                                                      *)
(***************************************************************************)

\* a slip: \$\$(.+?)\$\$, whose interior stops at a line end
DisplayMatchEndOneLine(s, i) ==
    IF StartsAt(s, i, <<DL, DL>>)
    THEN LET k == FindAt(s, i + 3, <<DL, DL>>)
         IN  IF k = 0 \/ \E j \in (i + 2)..(k - 1) : s[j] = NL THEN 0 ELSE k + 1
    ELSE 0

\* \$\$([\s\S]+?)\$\$
DisplayMatchEnd(s, i) ==
    IF StartsAt(s, i, <<DL, DL>>)
    THEN LET k == FindAt(s, i + 3, <<DL, DL>>) IN IF k = 0 THEN 0 ELSE k + 1
    ELSE 0

\* \$([^$\n]+?)\$
InlineMatchEnd(s, i) ==
    IF StartsAt(s, i, <<DL>>)
    THEN LET stops == {k \in (i + 1)..Len(s) : s[k] \in {DL, NL}}
             k == IF stops = {} THEN 0
                  ELSE CHOOSE m \in stops : \A h \in stops : m <= h
         IN  IF k >= i + 2 /\ s[k] = DL THEN k ELSE 0
    ELSE 0

(***************************************************************************)
(* processMathForWord, src/geminiService.ts:247-290                        *)
(*                                                                         *)
(* katex.renderToString (throwOnError: true) either returns markup or      *)
(* throws.  Which calls throw is an input of the operation: fails is the   *)
(* set of the numbers of the calls that throw; a "$" in the expression     *)
(* always throws (KaTeX: "Can't use function '$' in math mode").  The      *)
(* MathML that KaTeX returns carries the source expression in its          *)
(* <annotation encoding="application/x-tex"> element, so                   *)
(* the markup of a call is a pair of tags around the expression.           *)
(***************************************************************************)

KatexMarkup(tex, displayMode) ==
    <<IF displayMode THEN "<math display=\"block\">" ELSE "<math>">> \o tex \o <<"</math>">>

\* `<span style="color: red; font-family: monospace;">[Error LaTeX: ${tex}]</span>`
BlockError(tex) ==
    <<"<span style=\"color: red; font-family: monospace;\">[Error LaTeX: ">>
        \o tex \o <<"]</span>">>

\* `<span style="color: red;">$${tex}$</span>`
InlineError(tex) == <<"<span style=\"color: red;\">", DL>> \o tex \o <<DL, "</span>">>

NoOutput == [out |-> <<>>, shown |-> <<>>, calls |-> <<>>, thrown |-> FALSE]

\* one katex.renderToString call inside try/catch: the markup, or fallback
TryRender(acc, tex, displayMode, fallback, fails) ==
    LET ok == (Len(acc.calls) + 1) \notin fails
    IN  [acc EXCEPT
            !.out = @ \o (IF ok THEN KatexMarkup(tex, displayMode) ELSE fallback),
            !.calls = Append(@, [tex |-> tex, displayMode |-> displayMode, ok |-> ok])]

\* the callback of the $$...$$ replace
DisplayCallback(acc, tex, fails) == TryRender(acc, tex, TRUE, BlockError(tex), fails)

\* a slip: no price check, every $...$ match goes to katex
InlineCallbackNoPriceCheck(acc, match, tex, fails) ==
    TryRender(acc, tex, FALSE, InlineError(tex), fails)

\* the callback of the $...$ replace
InlineCallback(acc, match, tex, fails) ==
    IF IsPrice(tex)
    THEN [acc EXCEPT !.out = @ \o match]
    ELSE TryRender(acc, tex, FALSE, InlineError(tex), fails)

RECURSIVE DisplayPass(_, _, _, _)
DisplayPass(s, i, acc, fails) ==
    IF i > Len(s) THEN acc
    ELSE LET e == DisplayMatchEnd(s, i)
         IN  IF e > 0
             THEN DisplayPass(s, e + 1,
                              DisplayCallback(acc, SubSeq(s, i + 2, e - 2), fails), fails)
             ELSE DisplayPass(s, i + 1, [acc EXCEPT !.out = Append(@, s[i])], fails)

RECURSIVE InlinePass(_, _, _, _)
InlinePass(s, i, acc, fails) ==
    IF i > Len(s) THEN acc
    ELSE LET e == InlineMatchEnd(s, i)
         IN  IF e > 0
             THEN InlinePass(s, e + 1,
                             InlineCallback(acc, SubSeq(s, i, e), SubSeq(s, i + 1, e - 1), fails),
                             fails)
             ELSE InlinePass(s, i + 1, [acc EXCEPT !.out = Append(@, s[i])], fails)

processMathForWord(c, fails) ==
    IF c = <<>> THEN NoOutput
    ELSE LET normalized == cleanLatex(c)
             block == DisplayPass(normalized, 1, NoOutput, fails)
         IN  InlinePass(block.out, 1, [block EXCEPT !.out = <<>>, !.shown = block.out], fails)

(***************************************************************************)
(* splitTextAndMath, src/geminiService.ts:298-333                          *)
(***************************************************************************)

\* a slip: the pattern has no \n alternative
TokenMatchEndNoBreak(s, i) ==
    IF DisplayMatchEnd(s, i) > 0 THEN DisplayMatchEnd(s, i)
    ELSE IF InlineMatchEnd(s, i) > 0 THEN InlineMatchEnd(s, i)
    ELSE 0

\* the match of /(\$\$[\s\S]+?\$\$|\$[^$\n]+?\$|\n)/ that starts at i
TokenMatchEnd(s, i) ==
    IF DisplayMatchEnd(s, i) > 0 THEN DisplayMatchEnd(s, i)
    ELSE IF InlineMatchEnd(s, i) > 0 THEN InlineMatchEnd(s, i)
    ELSE IF s[i] = NL THEN i
    ELSE 0

\* String.prototype.split with a capturing pattern: the pieces between the
\* matches (empty ones too) and the matches, in order
RECURSIVE SplitFrom(_, _, _, _)
SplitFrom(s, i, piece, parts) ==
    IF i > Len(s) THEN Append(parts, piece)
    ELSE LET e == TokenMatchEnd(s, i)
         IN  IF e > 0
             THEN SplitFrom(s, e + 1, <<>>, parts \o <<piece, SubSeq(s, i, e)>>)
             ELSE SplitFrom(s, i + 1, Append(piece, s[i]), parts)

SplitParts(s) == SplitFrom(s, 1, <<>>, <<>>)

EndsWith(s, pat) == StartsAt(s, Len(s) - Len(pat) + 1, pat)

\* a slip: no price check, every $...$ part is math
SegmentsOfNoPriceCheck(part) ==
    IF part = <<>> THEN <<>>
    ELSE IF part = <<NL>> THEN <<[type |-> "break", value |-> <<>>]>>
    ELSE IF StartsAt(part, 1, <<DL, DL>>) /\ StartsAt(part, Len(part) - 1, <<DL, DL>>)
         THEN <<[type |-> "math", value |-> Trim(SubSeq(part, 3, Len(part) - 2))]>>
    ELSE IF StartsAt(part, 1, <<DL>>) /\ StartsAt(part, Len(part), <<DL>>)
         THEN <<[type |-> "math", value |-> Trim(SubSeq(part, 2, Len(part) - 1))]>>
    ELSE <<[type |-> "text", value |-> part]>>

\* a slip: the empty pieces of the split are not skipped
SegmentsOfKeepEmpty(part) ==
    IF part = <<NL>> THEN <<[type |-> "break", value |-> <<>>]>>
    ELSE IF StartsAt(part, 1, <<DL, DL>>) /\ EndsWith(part, <<DL, DL>>)
         THEN <<[type |-> "math", value |-> Trim(SubSeq(part, 3, Len(part) - 2))]>>
    ELSE IF StartsAt(part, 1, <<DL>>) /\ EndsWith(part, <<DL>>)
         THEN LET inner == SubSeq(part, 2, Len(part) - 1)
              IN  IF IsPrice(inner)
                  THEN <<[type |-> "text", value |-> part]>>
                  ELSE <<[type |-> "math", value |-> Trim(inner)]>>
    ELSE <<[type |-> "text", value |-> part]>>

\* the body of parts.forEach: the segments one part adds
SegmentsOf(part) ==
    IF part = <<>> THEN <<>>
    ELSE IF part = <<NL>> THEN <<[type |-> "break", value |-> <<>>]>>
    ELSE IF StartsAt(part, 1, <<DL, DL>>) /\ EndsWith(part, <<DL, DL>>)
         THEN <<[type |-> "math", value |-> Trim(SubSeq(part, 3, Len(part) - 2))]>>
    ELSE IF StartsAt(part, 1, <<DL>>) /\ EndsWith(part, <<DL>>)
         THEN LET inner == SubSeq(part, 2, Len(part) - 1)
              IN  IF IsPrice(inner)
                  THEN <<[type |-> "text", value |-> part]>>
                  ELSE <<[type |-> "math", value |-> Trim(inner)]>>
    ELSE <<[type |-> "text", value |-> part]>>

RECURSIVE CollectSegments(_, _)
CollectSegments(parts, i) ==
    IF i > Len(parts) THEN <<>>
    ELSE SegmentsOf(parts[i]) \o CollectSegments(parts, i + 1)

splitTextAndMath(c) ==
    IF c = <<>> THEN <<>>
    ELSE CollectSegments(SplitParts(cleanLatex(c)), 1)

(***************************************************************************)
(* The state machine: one string under edit, and the three operations      *)
(* applied to it in any order.                                             *)
(***************************************************************************)

\* the longest input of each specification, in chunks
MaxChunks == 3
MaxNormChunks == 4
MaxTableChunks == 3
MaxSplitChunks == 5
MaxRenderChunks == 3
MaxOrderChunks == 3

NormChunks == {BlockOpen, BlockClose, InlineOpen, InlineClose, <<"x">>, <<BS>>, <<NL>>}

TableChunks ==
    {Sen, Tg, Bold, Sin, <<BS>>, <<BS, "s">>, <<"e", "n">>, <<"g">>, <<"{">>,
     InlineOpen, InlineClose, BlockOpen, BlockClose}

SplitChunks == {<<DL>>, <<"5">>, <<".">>, <<SP>>, <<"x">>, <<NL>>}

RenderChunks ==
    {<<DL>>, <<DL, DL>>, <<DL, "5", DL>>, <<DL, SP, "5", ".", "5", DL>>, <<"5">>, <<"x">>,
     <<SP>>, <<NL>>, InlineOpen, InlineClose}

\* "$$ A $$ and $x$": a display fragment, a word, an inline fragment
And == <<SP, "a", "n", "d", SP>>
DisplayThenInline(A, X) == <<DL, DL>> \o A \o <<DL, DL>> \o And \o <<DL>> \o X \o <<DL>>
OrderDisplay == Words({<<"x">>, <<SP>>, <<DL>>, <<NL>>}, MaxOrderChunks) \ {<<>>}
OrderInline == {<<"x">>, <<"y">>, <<"x", "y">>}

TypeOK ==
    /\ op \in {"idle", "cleanLatex", "processMathForWord", "splitTextAndMath", "threw"}
    /\ content \in Seq(STRING)

InitWith(inputs) ==
    /\ content \in inputs
    /\ op = "idle"
    /\ result = <<>>
    /\ shown = <<>>
    /\ segments = <<>>
    /\ calls = <<>>
    /\ document = <<>>
    /\ selectionStart = 0
    /\ activeMathBlock = <<>>
    /\ isFileProtocol = FALSE
    /\ showHelp = FALSE
    /\ selectedOA = FALSE
    /\ isGenerating = FALSE
    /\ error = "null"
    /\ evaluation = 0
    /\ requests = <<>>
    /\ toast = "null"

\* a slip: the string returned last is kept and returned again
CallCleanLatexMemo ==
    /\ op' = "cleanLatex"
    /\ result' = IF result # <<>> THEN result ELSE cleanLatex(content)
    /\ shown' = <<>>
    /\ segments' = <<>>
    /\ calls' = <<>>
    /\ UNCHANGED <<content, uiVars>>

CallCleanLatex ==
    /\ op' = "cleanLatex"
    /\ result' = cleanLatex(content)
    /\ shown' = <<>>
    /\ segments' = <<>>
    /\ calls' = <<>>
    /\ UNCHANGED <<content, uiVars>>

\* an upper bound of the number of katex calls: each consumes two "$" at least
MaxFragments(c) == Count(cleanLatex(c), <<DL>>) \div 2

\* katex is a function: two calls with the same arguments end the same way,
\* and an expression that holds a "$" is a parse error
Deterministic(log) ==
    /\ \A i, j \in 1..Len(log) :
           (log[i].tex = log[j].tex /\ log[i].displayMode = log[j].displayMode)
               => log[i].ok = log[j].ok
    /\ \A i \in 1..Len(log) : Contains(log[i].tex, <<DL>>) => ~log[i].ok

CallProcessMathForWord ==
    \E fails \in SUBSET (1..MaxFragments(content)) :
        LET r == processMathForWord(content, fails)
        IN  /\ fails \subseteq 1..Len(r.calls)
            /\ Deterministic(r.calls)
            /\ op' = IF r.thrown THEN "threw" ELSE "processMathForWord"
            /\ result' = r.out
            /\ shown' = r.shown
            /\ calls' = r.calls
            /\ segments' = <<>>
            /\ UNCHANGED <<content, uiVars>>

CallSplitTextAndMath ==
    /\ op' = "splitTextAndMath"
    /\ segments' = splitTextAndMath(content)
    /\ result' = <<>>
    /\ shown' = <<>>
    /\ calls' = <<>>
    /\ UNCHANGED <<content, uiVars>>

Next ==
    \/ CallCleanLatex
    \/ CallProcessMathForWord
    \/ CallSplitTextAndMath

Init == InitWith(Words(SplitChunks, MaxChunks))

Spec == Init /\ [][Next]_vars

(***************************************************************************)
(* Specifications: the operations over bounded sets of inputs.             *)
(***************************************************************************)

\* legacy delimiters, nested and overlapping, around plain text
InitNorm == InitWith(Words(NormChunks, MaxNormChunks))

SpecNorm == InitNorm /\ [][CallCleanLatex]_vars

\* the commands of the correction table, whole and in pieces
InitTable == InitWith(Words(TableChunks, MaxTableChunks))

SpecTable == InitTable /\ [][CallCleanLatex]_vars

\* canonical delimiters, prices, blanks and line breaks
InitSplit == InitWith(Words(SplitChunks, MaxSplitChunks))

SpecSplit == InitSplit /\ [][CallSplitTextAndMath]_vars

\* dollar signs single and doubled, prices, legacy inline delimiters
InitRender == InitWith(Words(RenderChunks, MaxRenderChunks))

SpecRender == InitRender /\ [][CallProcessMathForWord]_vars

\* a display fragment followed by an inline fragment
InitOrder == InitWith({DisplayThenInline(A, X) : A \in OrderDisplay, X \in OrderInline})

SpecOrder == InitOrder /\ [][CallProcessMathForWord]_vars

(***************************************************************************)
(* The fragments a delimiter pair marks in s, left to right, each          *)
(* <<first, last>> position; and s with each rewrapped in pre and post.    *)
(***************************************************************************)

RECURSIVE DelimitedMatches(_, _, _, _)
DelimitedMatches(s, i, open, close) ==
    IF i > Len(s) THEN <<>>
    ELSE LET k == IF StartsAt(s, i, open) THEN FindAt(s, i + 3, close) ELSE 0
         IN  IF k > 0
             THEN <<<<i, k + 1>>>> \o DelimitedMatches(s, k + 2, open, close)
             ELSE DelimitedMatches(s, i + 1, open, close)

RECURSIVE Rewrap(_, _, _, _, _)
Rewrap(s, i, ms, pre, post) ==
    IF ms = <<>> THEN SubSeq(s, i, Len(s))
    ELSE LET m == Head(ms)
         IN  SubSeq(s, i, m[1] - 1) \o pre \o SubSeq(s, m[1] + 2, m[2] - 2) \o post
                 \o Rewrap(s, m[2] + 1, Tail(ms), pre, post)

BlockFragments(s) == DelimitedMatches(s, 1, BlockOpen, BlockClose)
InlineFragments(s) == DelimitedMatches(s, 1, InlineOpen, InlineClose)

HasLegacy(s) == BlockFragments(s) # <<>> \/ InlineFragments(s) # <<>>

HasTableCommand(s) == Contains(s, Bold) \/ Contains(s, Sen) \/ Contains(s, Tg)

(***************************************************************************)
(* C1.  Normalizer idempotence: for every input s, nested and overlapping  *)
(* legacy delimiters included, cleanLatex(cleanLatex(s)) = cleanLatex(s).  *)
(* Fails: a replaced fragment leaves the delimiters around it, which pair  *)
(* up in a second run.                                                     *)
(***************************************************************************)
C1_Idempotent == op = "cleanLatex" => cleanLatex(result) = result

(***************************************************************************)
(* C3.  cleanLatex replaces every legacy display fragment \[E\] by         *)
(* newline, "$$", E, "$$", newline.  Fails: the replacement string         *)
(* '\n$$$1$$\n' expands to one "$" on each side.                           *)
(***************************************************************************)
C3_BlockToDoubleDollar ==
    op = "cleanLatex" =>
        result = FixCommands(NormalizeInline(
                     Rewrap(content, 1, BlockFragments(content), <<NL, DL, DL>>, <<DL, DL, NL>>)))

(***************************************************************************)
(* C4.  As claimed: cleanLatex replaces every legacy inline fragment       *)
(* \(E\) by "$$", E, "$$" with no newline added.                           *)
(***************************************************************************)
C4_InlineToDoubleDollar ==
    op = "cleanLatex" =>
        LET s == NormalizeBlock(content)
        IN  result = FixCommands(Rewrap(s, 1, InlineFragments(s), <<DL, DL>>, <<DL, DL>>))

(***************************************************************************)
(* C4, amended.  cleanLatex replaces every legacy inline fragment \(E\)    *)
(* (E non-empty, matched non-greedily left to right in the string the      *)
(* display step leaves) by "$", E, "$": one dollar sign on each side and   *)
(* no newline added before or after.                                       *)
(***************************************************************************)
C4_InlineToSingleDollar ==
    op = "cleanLatex" =>
        LET s == NormalizeBlock(content)
        IN  /\ result = FixCommands(Rewrap(s, 1, InlineFragments(s), <<DL>>, <<DL>>))
            /\ Count(result, <<NL>>) = Count(s, <<NL>>)
            /\ Count(result, <<DL>>) = Count(s, <<DL>>) + 2 * Len(InlineFragments(s))

\* an inline fragment was converted: \(x\) has become $x$
C4_Witness ==
    /\ op = "cleanLatex"
    /\ content = InlineOpen \o <<"x">> \o InlineClose
    /\ result = <<DL, "x", DL>>

(***************************************************************************)
(* C5.  For every input the output of cleanLatex holds no legacy fragment  *)
(* (no \[ ... \] and no \( ... \) that the patterns would match), and an   *)
(* input with no legacy fragment and no correction-table command is        *)
(* returned as it is.  Fails on nested delimiters, as C1.                  *)
(***************************************************************************)
C5_NoLegacyLeft ==
    op = "cleanLatex" =>
        /\ ~HasLegacy(result)
        /\ (~HasLegacy(content) /\ ~HasTableCommand(content)) => result = content

(***************************************************************************)
(* C6.  Correction table: the output of cleanLatex holds no \sen, \tg or   *)
(* \bold{ ; each occurrence in the input has become \sin, \tan and         *)
(* \mathbf{ (the output holds as many of these as the input held of both   *)
(* spellings), and no replacement brings a table pattern back.             *)
(***************************************************************************)
C6_CorrectionTable ==
    op = "cleanLatex" =>
        /\ ~HasTableCommand(result)
        /\ Count(result, Sin) = Count(content, Sin) + Count(content, Sen)
        /\ Count(result, Tan) = Count(content, Tan) + Count(content, Tg)
        /\ Count(result, Mathbf) = Count(content, Mathbf) + Count(content, Bold)

\* all three commands were corrected in one call
C6_Witness ==
    /\ op = "cleanLatex"
    /\ content = Sen \o Tg \o Bold
    /\ result = Sin \o Tan \o Mathbf

(***************************************************************************)
(* Segments read back as text.  The segments of the code carry a type and  *)
(* a value and nothing that tells display from inline math, so a math      *)
(* segment has two candidate raw forms.                                    *)
(***************************************************************************)

RawForms(seg) ==
    IF seg.type = "math"
    THEN {<<DL>> \o seg.value \o <<DL>>, <<DL, DL>> \o seg.value \o <<DL, DL>>}
    ELSE IF seg.type = "break" THEN {<<NL>>}
    ELSE {seg.value}

RECURSIVE Reconstructions(_)
Reconstructions(segs) ==
    IF segs = <<>> THEN {<<>>}
    ELSE {a \o b : a \in RawForms(Head(segs)), b \in Reconstructions(Tail(segs))}

\* s is plain text, line breaks and well-formed $...$ and $$...$$ fragments
\* whose interiors hold no "$" and are not blank
RECURSIVE CanonicalFrom(_, _)
CanonicalFrom(s, i) ==
    IF i > Len(s) THEN TRUE
    ELSE IF s[i] = BS THEN FALSE
    ELSE IF s[i] # DL THEN CanonicalFrom(s, i + 1)
    ELSE IF StartsAt(s, i, <<DL, DL>>)
         THEN LET k == FindAt(s, i + 2, <<DL>>)
              IN  /\ k >= i + 3
                  /\ StartsAt(s, k, <<DL, DL>>)
                  /\ Trim(SubSeq(s, i + 2, k - 1)) # <<>>
                  /\ CanonicalFrom(s, k + 2)
    ELSE LET k == FindAt(s, i + 1, <<DL>>)
         IN  /\ k >= i + 2
             /\ \A j \in (i + 1)..(k - 1) : s[j] # NL
             /\ Trim(SubSeq(s, i + 1, k - 1)) # <<>>
             /\ CanonicalFrom(s, k + 1)

Canonical(s) == CanonicalFrom(s, 1)

(***************************************************************************)
(* C2.  Splitter round trip: for every string of plain text, canonical     *)
(* math fragments and newlines, the raw forms of the segments of           *)
(* splitTextAndMath, concatenated in order (text: its value; math: its     *)
(* value in "$$" or "$"; break: a newline), give cleanLatex of the string. *)
(* Fails: the value of a math segment is trimmed.                          *)
(***************************************************************************)
C2_RoundTrip ==
    (op = "splitTextAndMath" /\ Canonical(content)) =>
        cleanLatex(content) \in Reconstructions(segments)

(***************************************************************************)
(* C7.  Currency pass-through in the splitter: every $...$ span the        *)
(* tokenizer finds whose trimmed interior is an unsigned number with at    *)
(* most one "." or "," between digits is a text segment holding the whole  *)
(* span, both "$" included, and never a math segment; and an input with    *)
(* one unclosed price ("Cuesta $500 el kilo") gives one text segment, the  *)
(* whole input.                                                            *)
(***************************************************************************)
NonEmpty(p) == p # <<>>

IsPriceSpan(p) ==
    /\ Len(p) >= 3
    /\ p[1] = DL
    /\ p[Len(p)] = DL
    /\ \A k \in 2..(Len(p) - 1) : p[k] \notin {DL, NL}
    /\ MatchesNumber(Trim(SubSeq(p, 2, Len(p) - 1)))

\* one "$", a digit right after it, and the line never ends
OneUnclosedPrice(s) ==
    /\ Count(s, <<DL>>) = 1
    /\ \E i \in 1..(Len(s) - 1) : s[i] = DL /\ s[i + 1] \in Digit
    /\ ~Contains(s, <<NL>>)
    /\ ~Contains(s, <<BS>>)

C7_PriceIsText ==
    op = "splitTextAndMath" =>
        LET parts == SelectSeq(SplitParts(cleanLatex(content)), NonEmpty)
        IN  /\ Len(segments) = Len(parts)
            /\ \A k \in 1..Len(parts) :
                   IsPriceSpan(parts[k]) =>
                       segments[k] = [type |-> "text", value |-> parts[k]]
            /\ OneUnclosedPrice(content) =>
                   segments = <<[type |-> "text", value |-> content]>>

\* a price between two words came out as a text segment of its own
C7_Witness ==
    /\ op = "splitTextAndMath"
    /\ content = <<"x", DL, "5", DL, "x">>
    /\ segments = <<[type |-> "text", value |-> <<"x">>],
                    [type |-> "text", value |-> <<DL, "5", DL>>],
                    [type |-> "text", value |-> <<"x">>]>>

(***************************************************************************)
(* What the $...$ replace of processMathForWord must return, read off its  *)
(* input (shown) and the katex calls it made (log): text outside the       *)
(* candidates and price candidates are copied, every other candidate is    *)
(* the markup or the error span of the next call.                          *)
(***************************************************************************)

\* the end of the $...$ candidate that starts at i, 0 when none does
CandidateEnd(s, i) ==
    IF s[i] # DL THEN 0
    ELSE LET k == FindAt(s, i + 1, <<DL>>)
         IN  IF k >= i + 2 /\ \A j \in (i + 1)..(k - 1) : s[j] # NL THEN k ELSE 0

RECURSIVE Candidates(_, _)
Candidates(s, i) ==
    IF i > Len(s) THEN <<>>
    ELSE LET e == CandidateEnd(s, i)
         IN  IF e > 0 THEN <<<<i, e>>>> \o Candidates(s, e + 1) ELSE Candidates(s, i + 1)

RECURSIVE PricesKept(_, _, _)
PricesKept(s, i, log) ==
    IF i > Len(s) THEN <<>>
    ELSE LET e == CandidateEnd(s, i)
         IN  IF e = 0 THEN <<s[i]>> \o PricesKept(s, i + 1, log)
             ELSE IF IsPriceSpan(SubSeq(s, i, e))
                  THEN SubSeq(s, i, e) \o PricesKept(s, e + 1, log)
             ELSE IF log = <<>> THEN <<"(no call)">>
             ELSE (IF Head(log).ok
                   THEN KatexMarkup(Head(log).tex, FALSE)
                   ELSE InlineError(Head(log).tex))
                      \o PricesKept(s, e + 1, Tail(log))

InlineCalls == SelectSeq(calls, LAMBDA c : ~c.displayMode)

\* every "$" of s is a delimiter of a price span
RECURSIVE PricesOnlyFrom(_, _)
PricesOnlyFrom(s, i) ==
    IF i > Len(s) THEN TRUE
    ELSE IF s[i] # DL THEN PricesOnlyFrom(s, i + 1)
    ELSE LET e == CandidateEnd(s, i)
         IN  e > 0 /\ IsPriceSpan(SubSeq(s, i, e)) /\ PricesOnlyFrom(s, e + 1)

PricesOnly(s) == PricesOnlyFrom(s, 1)

C8_CandidatesUntouched ==
    /\ \A k \in 1..Len(calls) :
           ~calls[k].displayMode => ~MatchesNumber(Trim(calls[k].tex))
    /\ result = PricesKept(shown, 1, InlineCalls)

(***************************************************************************)
(* C8.  As claimed: currency pass-through in the renderer.  For every      *)
(* inline $...$ candidate whose trimmed interior is an unsigned number     *)
(* with at most one "." or "," between digits, processMathForWord makes    *)
(* no katex call and leaves the span as it is; and an input whose only     *)
(* dollar signs are such amounts is returned unchanged (read in favour of  *)
(* the claim: an input that cleanLatex leaves as it is).                   *)
(***************************************************************************)
C8_PricesPassThrough ==
    op = "processMathForWord" =>
        /\ C8_CandidatesUntouched
        /\ (PricesOnly(content) /\ ~HasLegacy(content) /\ ~HasTableCommand(content))
               => result = content

(***************************************************************************)
(* C8, amended.  The same for every candidate; and an input whose only     *)
(* dollar signs are such amounts, and that cleanLatex leaves as it is (no  *)
(* legacy fragment, no correction-table command), is returned unchanged,   *)
(* with no katex call, provided it holds no "$$" (the closing "$" of one   *)
(* amount directly before the opening "$" of the next, which the $$...$$   *)
(* replace takes first).                                                   *)
(***************************************************************************)
C8_PricesPassThroughApart ==
    op = "processMathForWord" =>
        /\ C8_CandidatesUntouched
        /\ (/\ PricesOnly(content)
            /\ ~Contains(content, <<DL, DL>>)
            /\ ~HasLegacy(content)
            /\ ~HasTableCommand(content))
               => (result = content /\ calls = <<>>)

\* a price between two words went through unrendered
C8_Witness ==
    /\ op = "processMathForWord"
    /\ content = <<"x", DL, "5", DL, "x">>
    /\ result = content
    /\ calls = <<>>

(***************************************************************************)
(* C9.  Fault containment: processMathForWord never throws; whichever      *)
(* katex calls fail, each failed fragment is in the result as an error     *)
(* span holding its expression as written, and every other fragment that   *)
(* went to katex is in the result as its markup.  Fails when the           *)
(* expression of a $$...$$ fragment holds a "$": the $...$ replace runs    *)
(* over the error span (or the markup) the first replace put there.        *)
(***************************************************************************)
ErrorSpan(c) == IF c.displayMode THEN BlockError(c.tex) ELSE InlineError(c.tex)

C9_FaultContainment ==
    /\ op # "threw"
    /\ op = "processMathForWord" =>
           \A k \in 1..Len(calls) :
               IF calls[k].ok
               THEN Contains(result, KatexMarkup(calls[k].tex, calls[k].displayMode))
               ELSE Contains(result, ErrorSpan(calls[k]))

(***************************************************************************)
(* C10.  Display before inline: every $$...$$ span is replaced before the  *)
(* $...$ scan runs, so no $...$ candidate of that scan uses a "$" that     *)
(* belonged to a display span; and "$$ A $$ and $x$", both calls           *)
(* succeeding, gives the display markup of A, " and ", the inline markup   *)
(* of x.  Fails when A holds a "$": it is carried into what the first      *)
(* replace returns, and the scan pairs it up.                              *)
(***************************************************************************)
OpenTags ==
    {"<math display=\"block\">",
     "<span style=\"color: red; font-family: monospace;\">[Error LaTeX: "}
CloseTags == {"</math>", "]</span>"}

\* position p of shown lies in what the $$...$$ replace put there
InDisplaySpan(p) ==
    \E a \in 1..(p - 1) :
        /\ shown[a] \in OpenTags
        /\ \A b \in (a + 1)..(p - 1) : shown[b] \notin CloseTags

C10_DisplayBeforeInline ==
    op = "processMathForWord" =>
        /\ \A k \in 1..Len(Candidates(shown, 1)) :
               LET m == Candidates(shown, 1)[k]
               IN  ~InDisplaySpan(m[1]) /\ ~InDisplaySpan(m[2])
        /\ \A A \in OrderDisplay, X \in OrderInline :
               (content = DisplayThenInline(A, X) /\ \A k \in 1..Len(calls) : calls[k].ok)
                   => result = KatexMarkup(A, TRUE) \o And \o KatexMarkup(X, FALSE)

(***************************************************************************)
(* The parts of the split that reach the segments (the empty ones are      *)
(* skipped), and which of them are matches of the pattern.                 *)
(***************************************************************************)
Parts == SelectSeq(SplitParts(cleanLatex(content)), NonEmpty)

\* p is one whole match of $$...$$ or of $...$
IsMathToken(p) ==
    \/ (Len(p) >= 5 /\ StartsAt(p, 1, <<DL, DL>>) /\ FindAt(p, 4, <<DL, DL>>) = Len(p) - 1)
    \/ (/\ Len(p) >= 3
        /\ p[1] = DL
        /\ p[Len(p)] = DL
        /\ p[2] # DL
        /\ \A k \in 2..(Len(p) - 1) : p[k] \notin {DL, NL})

(***************************************************************************)
(* C11.  Unbalanced delimiters: a "$" that is part of no matched $...$ or  *)
(* $$...$$ span (stray or dangling, alone on a line or directly before a   *)
(* matched span) is in the value of a text segment; splitTextAndMath       *)
(* emits no math segment for it and does not drop it.  Fails: a piece      *)
(* that is "$" or "$$" alone starts and ends with "$", and is pushed as a  *)
(* math segment with the empty value.                                      *)
(***************************************************************************)
C11_StrayDollarIsText ==
    op = "splitTextAndMath" =>
        /\ Len(segments) = Len(Parts)
        /\ \A k \in 1..Len(Parts) :
               (Contains(Parts[k], <<DL>>) /\ ~IsMathToken(Parts[k]))
                   => segments[k] = [type |-> "text", value |-> Parts[k]]

(***************************************************************************)
(* C13.  Segment-sequence invariant: the array splitTextAndMath returns    *)
(* holds no two adjacent segments that are both text.  Fails: a price      *)
(* span is pushed as a text segment of its own, next to the text around    *)
(* it.                                                                     *)
(***************************************************************************)
C13_NoAdjacentText ==
    op = "splitTextAndMath" =>
        \A k \in 1..(Len(segments) - 1) :
            ~(segments[k].type = "text" /\ segments[k + 1].type = "text")

(***************************************************************************)
(* C14.  splitTextAndMath never emits a text segment whose value is the    *)
(* empty string: the empty pieces between adjacent matches, and at the     *)
(* start and the end of the string, are dropped; for the empty input the   *)
(* result is the empty array.                                              *)
(***************************************************************************)
C14_NoEmptyText ==
    op = "splitTextAndMath" =>
        /\ \A k \in 1..Len(segments) :
               segments[k].type = "text" => segments[k].value # <<>>
        /\ Len(segments) = Len(Parts)
        /\ content = <<>> => segments = <<>>

\* two adjacent matches at the start of the string: three empty pieces dropped
C14_Witness ==
    /\ op = "splitTextAndMath"
    /\ content = <<DL, "x", DL, NL>>
    /\ Len(SplitParts(cleanLatex(content))) = 5
    /\ segments = <<[type |-> "math", value |-> <<"x">>],
                    [type |-> "break", value |-> <<>>]>>

(***************************************************************************)
(* C15.  Math segment classification: every matched $$E$$ span gives a     *)
(* math segment with value E trimmed and isDisplay = true, every matched   *)
(* $E$ span that is no price a math segment with value E trimmed and       *)
(* isDisplay = false, so that display and inline math can be told apart    *)
(* from the segment alone.  Fails: the segments of the code have a type    *)
(* and a value and no isDisplay.                                           *)
(***************************************************************************)
IsDisplayToken(p) == IsMathToken(p) /\ StartsAt(p, 1, <<DL, DL>>)

C15_MathCarriesIsDisplay ==
    op = "splitTextAndMath" =>
        /\ Len(segments) = Len(Parts)
        /\ \A k \in 1..Len(Parts) :
               (IsMathToken(Parts[k]) /\ ~IsPriceSpan(Parts[k])) =>
                   /\ segments[k].type = "math"
                   /\ "isDisplay" \in DOMAIN segments[k]
                   /\ segments[k].isDisplay = IsDisplayToken(Parts[k])

(***************************************************************************)
(* Lines: display spans over several lines, dollar signs on either side    *)
(* of a line end, under the splitter and the renderer.                     *)
(***************************************************************************)
MaxLineChunks == 4

LineChunks == {<<DL, DL>>, <<DL>>, <<"x">>, <<NL>>, <<SP>>, <<"x", NL, "x">>}

InitLines == InitWith(Words(LineChunks, MaxLineChunks))

NextLines == CallSplitTextAndMath \/ CallProcessMathForWord

SpecLines == InitLines /\ [][NextLines]_vars

\* the end of the $$...$$ span that starts at i, 0 when none does
SpanEnd(s, i) ==
    IF i + 1 > Len(s) \/ s[i] # DL \/ s[i + 1] # DL THEN 0
    ELSE LET ks == {k \in (i + 3)..(Len(s) - 1) : s[k] = DL /\ s[k + 1] = DL}
         IN  IF ks = {} THEN 0 ELSE 1 + CHOOSE k \in ks : \A h \in ks : k <= h

\* the interiors of the $$...$$ spans of s, left to right
RECURSIVE SpanInteriors(_, _)
SpanInteriors(s, i) ==
    IF i > Len(s) THEN <<>>
    ELSE LET e == SpanEnd(s, i)
         IN  IF e > 0 THEN <<SubSeq(s, i + 2, e - 2)>> \o SpanInteriors(s, e + 1)
             ELSE SpanInteriors(s, i + 1)

DisplayCalls == SelectSeq(calls, LAMBDA c : c.displayMode)

BreakCount == Len(SelectSeq(segments, LAMBDA g : g.type = "break"))

\* interiors of two chunks that hold a line end
MultilineInteriors ==
    {E \in Words(LineChunks \ {<<DL>>, <<DL, DL>>}, 2) : Contains(E, <<NL>>)}

(***************************************************************************)
(* C12.  Multiline display handling: for a $$E$$ span whose interior holds *)
(* newlines, splitTextAndMath emits one math segment (value E trimmed) and *)
(* no break segment for the newlines of E, and processMathForWord makes    *)
(* one displayMode call with the expression E.                             *)
(***************************************************************************)
C12_MultilineDisplay ==
    /\ op = "splitTextAndMath" =>
           /\ Len(segments) = Len(Parts)
           /\ \A k \in 1..Len(Parts) :
                  (IsDisplayToken(Parts[k]) /\ Contains(Parts[k], <<NL>>)) =>
                      segments[k] = [type |-> "math",
                                     value |-> Trim(SubSeq(Parts[k], 3, Len(Parts[k]) - 2))]
           /\ \A E \in MultilineInteriors :
                  content = <<DL, DL>> \o E \o <<DL, DL>> =>
                      segments = <<[type |-> "math", value |-> Trim(E)]>>
    /\ op = "processMathForWord" =>
           /\ Len(DisplayCalls) = Len(SpanInteriors(cleanLatex(content), 1))
           /\ \A k \in 1..Len(DisplayCalls) :
                  DisplayCalls[k].tex = SpanInteriors(cleanLatex(content), 1)[k]
           /\ \A E \in MultilineInteriors :
                  content = <<DL, DL>> \o E \o <<DL, DL>> =>
                      (Len(calls) = 1 /\ calls[1].tex = E /\ calls[1].displayMode)

\* a two-line display span went to katex whole, in one displayMode call
C12_Witness ==
    /\ op = "processMathForWord"
    /\ content = <<DL, DL, "x", NL, "x", DL, DL>>
    /\ calls = <<[tex |-> <<"x", NL, "x">>, displayMode |-> TRUE, ok |-> TRUE]>>
    /\ result = KatexMarkup(<<"x", NL, "x">>, TRUE)

(***************************************************************************)
(* C16.  Break segments: each newline of the normalized string that lies   *)
(* outside every matched $$...$$ span gives one break segment at its       *)
(* position in the array, and there is no other break segment (as many     *)
(* break segments as such newlines).                                       *)
(***************************************************************************)
\* the newlines of s outside the spans the pattern matches, left to right
RECURSIVE NewlinesOutside(_, _)
NewlinesOutside(s, i) ==
    IF i > Len(s) THEN 0
    ELSE IF SpanEnd(s, i) > 0 THEN NewlinesOutside(s, SpanEnd(s, i) + 1)
    ELSE IF CandidateEnd(s, i) > 0 THEN NewlinesOutside(s, CandidateEnd(s, i) + 1)
    ELSE (IF s[i] = NL THEN 1 ELSE 0) + NewlinesOutside(s, i + 1)

\* the kinds of the segments, a math segment with its line ends
RECURSIVE RawLines(_)
RawLines(segs) ==
    IF segs = <<>> THEN <<>>
    ELSE (IF Head(segs).type = "break" THEN <<"break">>
          ELSE IF Head(segs).type = "text" /\ Contains(Head(segs).value, <<NL>>)
               THEN <<"line end in text">>
          ELSE <<>>)
             \o RawLines(Tail(segs))

C16_BreakPerNewline ==
    op = "splitTextAndMath" =>
        /\ BreakCount = NewlinesOutside(cleanLatex(content), 1)
        /\ Len(RawLines(segments)) = BreakCount
        /\ Len(segments) = Len(Parts)
        /\ \A k \in 1..Len(Parts) : (segments[k].type = "break") <=> (Parts[k] = <<NL>>)

\* a line end inside a display span and one after it: one break segment
C16_Witness ==
    /\ op = "splitTextAndMath"
    /\ content = <<DL, DL, "x", NL, "x", DL, DL, NL>>
    /\ segments = <<[type |-> "math", value |-> <<"x", NL, "x">>],
                    [type |-> "break", value |-> <<>>]>>

(***************************************************************************)
(* C17.  Inline math never spans lines: neither processMathForWord nor     *)
(* splitTextAndMath takes a $...$ pair with a newline between the two "$"  *)
(* as an inline math fragment; such text is left as text, with a break     *)
(* segment for the newline in the splitter.  Fails in the splitter when    *)
(* one "$" of the pair stands alone on its line: that piece is pushed as   *)
(* a math segment with the empty value.                                    *)
(***************************************************************************)
\* s holds two "$" with a line end and no "$" between them
HasBrokenPair(s) ==
    \E i, j \in 1..Len(s) :
        /\ i < j
        /\ s[i] = DL
        /\ s[j] = DL
        /\ \A k \in (i + 1)..(j - 1) : s[k] # DL
        /\ \E k \in (i + 1)..(j - 1) : s[k] = NL

C17_InlineStaysOnLine ==
    /\ op = "processMathForWord" =>
           \A k \in 1..Len(calls) :
               ~calls[k].displayMode => ~Contains(calls[k].tex, <<NL>>)
    /\ (op = "splitTextAndMath" /\ HasBrokenPair(cleanLatex(content))) =>
           /\ Len(segments) = Len(Parts)
           /\ \A k \in 1..Len(Parts) :
                  /\ (segments[k].type = "math" /\ ~IsDisplayToken(Parts[k]))
                         => ~Contains(Parts[k], <<NL>>)
                  /\ (~IsMathToken(Parts[k]) /\ Parts[k] # <<NL>>)
                         => segments[k] = [type |-> "text", value |-> Parts[k]]

(***************************************************************************)
(* Frame: legacy delimiters, table commands and dollar signs together.     *)
(***************************************************************************)
MaxFrameChunks == 4

FrameChunks ==
    {BlockOpen, BlockClose, InlineOpen, InlineClose, <<"x">>, <<DL>>, Sen, Bold}

InitFrame == InitWith(Words(FrameChunks, MaxFrameChunks))

SpecFrame == InitFrame /\ [][CallCleanLatex]_vars

\* The characters the three steps rewrite, struck out: the delimiters of
\* the matched \[ \] pairs, then of the matched \( \) pairs, then the
\* occurrences of the table commands.
Mark == "#"

StruckBlock(s) == Rewrap(s, 1, BlockFragments(s), <<Mark>>, <<Mark>>)
StruckInline(s) == Rewrap(s, 1, InlineFragments(s), <<Mark>>, <<Mark>>)
StruckCommands(s) ==
    ReplaceLiteral(ReplaceLiteral(ReplaceLiteral(s, Bold, <<Mark>>), Sen, <<Mark>>),
                   Tg, <<Mark>>)

\* what is left of s: the characters no step rewrites, in order
Kept(s) ==
    SelectSeq(StruckCommands(StruckInline(StruckBlock(s))), LAMBDA ch : ch # Mark)

\* the number of characters the three steps write
Written(s) ==
    4 * Len(BlockFragments(s))
        + 2 * Len(InlineFragments(StruckBlock(s)))
        + Len(Mathbf) * Count(StruckInline(StruckBlock(s)), Bold)
        + Len(Sin) * Count(StruckInline(StruckBlock(s)), Sen)
        + Len(Tan) * Count(StruckInline(StruckBlock(s)), Tg)

\* a is b with some characters left out
RECURSIVE IsSubsequence(_, _)
IsSubsequence(a, b) ==
    IF a = <<>> THEN TRUE
    ELSE IF b = <<>> THEN FALSE
    ELSE IF Head(a) = Head(b) THEN IsSubsequence(Tail(a), Tail(b))
    ELSE IsSubsequence(a, Tail(b))

MaxPriceChunks == 3

PriceChunks ==
    {<<"5">>, <<".", "5">>, <<",", "5">>, <<",">>, <<"-">>, <<"x">>, <<SP>>}

PriceInteriors == Words(PriceChunks, MaxPriceChunks) \ {<<>>}

InitPrice == InitWith({<<DL>> \o I \o <<DL>> : I \in PriceInteriors})

NextPrice == CallSplitTextAndMath \/ CallProcessMathForWord

SpecPrice == InitPrice /\ [][NextPrice]_vars

\* s without the blanks at its two ends
Unpadded(s) ==
    LET inked == {k \in 1..Len(s) : s[k] # SP}
    IN  IF inked = {} THEN <<>>
        ELSE SubSeq(s, CHOOSE a \in inked : \A k \in inked : a <= k,
                       CHOOSE b \in inked : \A k \in inked : b >= k)

\* one or more digits, then at most once a "." or "," and one or more digits
UnsignedNumber(s) ==
    LET seps == {k \in 1..Len(s) : s[k] \in {".", ","}}
    IN  /\ s # <<>>
        /\ \A k \in 1..Len(s) : s[k] \in Digit \/ k \in seps
        /\ Cardinality(seps) <= 1
        /\ 1 \notin seps
        /\ Len(s) \notin seps

\* the interior of the fragment under test
Interior == SubSeq(content, 2, Len(content) - 1)

IsAmount == UnsignedNumber(Unpadded(Interior))

C19_Examples ==
    /\ UnsignedNumber(<<"5">>)
    /\ UnsignedNumber(<<"5", ".", "5", "5", "5">>)
    /\ UnsignedNumber(<<"5", ",", "5">>)
    /\ UnsignedNumber(Unpadded(<<SP, "5", "5", "5", SP>>))
    /\ ~UnsignedNumber(<<"5", ".", "5", ".", "5">>)
    /\ ~UnsignedNumber(<<"-", "5">>)
    /\ ~UnsignedNumber(<<"5", "x">>)
    /\ ~UnsignedNumber(<<"x">>)

MaxLegacyChunks == 3

LegacyInteriors == Words({<<"x">>, <<"5">>, <<SP>>, <<NL>>}, MaxLegacyChunks) \ {<<>>}

LegacyDisplay(E) == BlockOpen \o E \o BlockClose
LegacyInline(E) == InlineOpen \o E \o InlineClose

InitLegacy ==
    InitWith({LegacyDisplay(E) : E \in LegacyInteriors}
                 \cup {LegacyInline(E) : E \in LegacyInteriors})

NextLegacy == CallSplitTextAndMath \/ CallProcessMathForWord

SpecLegacy == InitLegacy /\ [][NextLegacy]_vars

MathSegments == SelectSeq(segments, LAMBDA g : g.type = "math")

(***************************************************************************)
(* C20.  Legacy fragments are math downstream with no cleanup by the       *)
(* caller: for a legacy display fragment \[E\] (E non-empty, free of "$",  *)
(* possibly over several lines) splitTextAndMath gives one math segment    *)
(* with value E trimmed and processMathForWord makes one displayMode call  *)
(* with E; likewise \(E\) (E on one line and no amount) gives one math     *)
(* segment with value E trimmed.  Fails for \[E\]: cleanLatex turns it     *)
(* into newline, "$", E, "$", newline, an inline fragment, which a line    *)
(* end in E breaks.                                                        *)
(***************************************************************************)
C20_LegacyIsMath ==
    \A E \in LegacyInteriors :
        /\ (op = "splitTextAndMath" /\ content = LegacyDisplay(E)) =>
               MathSegments = <<[type |-> "math", value |-> Trim(E)]>>
        /\ (op = "processMathForWord" /\ content = LegacyDisplay(E)) =>
               (Len(calls) = 1 /\ calls[1].tex = E /\ calls[1].displayMode)
        /\ (/\ op = "splitTextAndMath"
            /\ content = LegacyInline(E)
            /\ ~Contains(E, <<NL>>)
            /\ ~UnsignedNumber(Unpadded(E))) =>
               MathSegments = <<[type |-> "math", value |-> Trim(E)]>>

(***************************************************************************)
(* C21.  A failed display fragment stays contained: when katex throws for  *)
(* a $$E$$ span, the result holds the error span with E as written, and    *)
(* the $...$ replace that follows renders and changes nothing of that      *)
(* span, also when E holds "$" ($$a$b$c$$).  Fails: the second replace     *)
(* runs over the whole string, the error span included.                    *)
(***************************************************************************)
\* the positions of shown that the error span starting at a covers
ErrorSpanAt(a) ==
    IF shown[a] # Head(BlockError(<<>>)) THEN {}
    ELSE {p \in a..Len(shown) : \A b \in a..(p - 1) : shown[b] \notin CloseTags}

C21_FailedDisplayUntouched ==
    op = "processMathForWord" =>
        /\ \A k \in 1..Len(calls) :
               (calls[k].displayMode /\ ~calls[k].ok)
                   => Contains(result, BlockError(calls[k].tex))
        /\ \A a \in 1..Len(shown) :
               \A k \in 1..Len(Candidates(shown, 1)) :
                   /\ Candidates(shown, 1)[k][1] \notin ErrorSpanAt(a)
                   /\ Candidates(shown, 1)[k][2] \notin ErrorSpanAt(a)

(***************************************************************************)
(* C24.  Every math segment splitTextAndMath returns has a non-empty       *)
(* value, also for "$", "$$", "$$$" and "$ $".  Fails on each of these.    *)
(***************************************************************************)
C24_MathValueNonEmpty ==
    op = "splitTextAndMath" =>
        \A k \in 1..Len(segments) :
            segments[k].type = "math" => segments[k].value # <<>>

(***************************************************************************)
(* Sentences of plain words and unclosed prices, one blank between them.   *)
(***************************************************************************)
MaxUnclosedTokens == 4

UnclosedTokens == {<<"y">>, <<DL, "5">>, <<DL, "5", "0", "0">>}

RECURSIVE Sentences(_)
Sentences(n) ==
    IF n = 1 THEN UnclosedTokens
    ELSE Sentences(n - 1) \cup {w \o <<SP>> \o t : w \in Sentences(n - 1), t \in UnclosedTokens}

InitUnclosed == InitWith(Sentences(MaxUnclosedTokens))

NextUnclosed == CallSplitTextAndMath \/ CallProcessMathForWord

SpecUnclosed == InitUnclosed /\ [][NextUnclosed]_vars

(***************************************************************************)
(* C25.  Several unclosed prices on one line stay text: for an input made  *)
(* of plain words and price tokens "$" digits, none with a closing "$" of  *)
(* its own ("$500 y $300"), splitTextAndMath gives no math segment and     *)
(* processMathForWord makes no katex call and returns the input as it is.  *)
(* Fails: the "$" of two prices pair up, and what lies between them is no  *)
(* number.                                                                 *)
(***************************************************************************)
C25_UnclosedPricesStayText ==
    /\ op = "splitTextAndMath" => MathSegments = <<>>
    /\ op = "processMathForWord" => (calls = <<>> /\ result = content)

(***************************************************************************)
(* Both readings of one string: fragments next to each other, with one     *)
(* and with two dollar signs.                                              *)
(***************************************************************************)
MaxAgreeChunks == 5

AgreeChunks == {<<DL>>, <<DL, DL>>, <<"a">>, <<"b">>}

InitAgree == InitWith(Words(AgreeChunks, MaxAgreeChunks))

SpecAgree == InitAgree /\ [][CallProcessMathForWord]_vars

\* the values of the math segments of segs, the empty ones left out
RECURSIVE MathValues(_)
MathValues(segs) ==
    IF segs = <<>> THEN <<>>
    ELSE (IF Head(segs).type = "math" /\ Head(segs).value # <<>>
          THEN <<Head(segs).value>> ELSE <<>>)
             \o MathValues(Tail(segs))

\* the trimmed expressions of the katex calls of log
RECURSIVE CallValues(_)
CallValues(log) ==
    IF log = <<>> THEN <<>>
    ELSE <<Trim(Head(log).tex)>> \o CallValues(Tail(log))

(***************************************************************************)
(* C23.  Renderer and splitter agree on what is math: the fragments        *)
(* processMathForWord hands to katex, in order, are the math segments of   *)
(* splitTextAndMath for the same input (compared on the trimmed interior;  *)
(* read in favour of the claim, math segments with the empty value are     *)
(* left out), though one scans in two passes and the other with one        *)
(* pattern.  Fails on "$a$$b$$": the first pass takes $$b$$ and leaves     *)
(* "$a" with no closing "$", the one pattern takes $a$ and then $b$.       *)
(***************************************************************************)
C23_SameFragments ==
    op = "processMathForWord" =>
        CallValues(calls) = MathValues(splitTextAndMath(content))

(***************************************************************************)
(* Histories: the three operations called one after the other on           *)
(* changing arguments.                                                     *)
(***************************************************************************)
MaxHistoryChunks == 2

HistoryChunks == {<<DL>>, <<DL, "x", DL>>, Sen, InlineOpen \o <<"x">> \o InlineClose}

HistoryInputs == Words(HistoryChunks, MaxHistoryChunks)

InitHistory == InitWith(HistoryInputs)

\* the next call has another argument; what the last call left stays
NextArgument ==
    /\ content' \in HistoryInputs \ {content}
    /\ op' = "idle"
    /\ UNCHANGED <<result, shown, segments, calls, uiVars>>

NextHistory ==
    \/ NextArgument
    \/ CallCleanLatex
    \/ CallProcessMathForWord
    \/ CallSplitTextAndMath

SpecHistory == InitHistory /\ [][NextHistory]_vars

RECURSIVE SplitLinesFrom(_, _, _)
SplitLinesFrom(s, i, line) ==
    IF i > Len(s) THEN <<line>>
    ELSE IF s[i] = NL THEN <<line>> \o SplitLinesFrom(s, i + 1, <<>>)
    ELSE SplitLinesFrom(s, i + 1, Append(line, s[i]))

SplitLines(s) == SplitLinesFrom(s, 1, <<>>)

\* part.value.replace(/\*\*/g, '').replace(/__/g, '')
CleanText(value) == ReplaceLiteral(ReplaceLiteral(value, <<"*", "*">>, <<>>), <<"_", "_">>, <<>>)

\* new DocxMath({ children: [new MathRun(part.value)] }) or new TextRun(...)
RunOf(part) ==
    IF part.type = "math"
    THEN [run |-> "math", text |-> part.value]
    ELSE [run |-> "text", text |-> CleanText(part.value)]

\* the callback of lines.forEach: the paragraph one line adds
ParagraphOf(line) ==
    IF Trim(line) = <<>> THEN <<>>
    ELSE LET parts == splitTextAndMath(line)
         IN  [k \in 1..Len(parts) |-> RunOf(parts[k])]

ExportParagraphs(c) ==
    LET lines == SplitLines(c)
    IN  [k \in 1..Len(lines) |-> ParagraphOf(lines[k])]

CallHandleExportWord ==
    /\ op' = "handleExportWord"
    /\ document' = ExportParagraphs(content)
    /\ UNCHANGED <<content, result, shown, segments, calls>>
    /\ UNCHANGED <<selectionStart, activeMathBlock, appVars>>

\* section contents of several lines, with dollar signs single and doubled
SpecExport == InitLines /\ [][CallHandleExportWord]_vars

\* the runs of the paragraphs of doc, one after the other
RECURSIVE AllRuns(_)
AllRuns(doc) == IF doc = <<>> THEN <<>> ELSE Head(doc) \o AllRuns(Tail(doc))

MathRunTexts(doc) ==
    LET runs == SelectSeq(AllRuns(doc), LAMBDA r : r.run = "math")
    IN  [k \in 1..Len(runs) |-> runs[k].text]

SegmentValues(segs) == [k \in 1..Len(segs) |-> segs[k].value]

(***************************************************************************)
(* C26.  The DOCX export keeps fragments whole: each math fragment that    *)
(* splitTextAndMath finds in the whole section content gives one native    *)
(* math run in the document, also a $$...$$ fragment over several lines;   *)
(* and every other segment gives a text run.  Fails: the content is cut    *)
(* at its line ends before splitTextAndMath sees it, one line at a time.   *)
(***************************************************************************)
C26_ExportKeepsFragments ==
    op = "handleExportWord" =>
        /\ MathRunTexts(document)
               = SegmentValues(SelectSeq(splitTextAndMath(content),
                                         LAMBDA g : g.type = "math"))
        /\ \A k \in 1..Len(AllRuns(document)) : AllRuns(document)[k].run \in {"math", "text"}

(***************************************************************************)
(* The math editor of DocumentPreview, src/components/DocumentPreview.tsx: *)
(* findMathContext (39-69), handleTextareaCursor (326-353) and             *)
(* handleMathSyncUpdate (442-486) on the content of one section, which is  *)
(* the value of its textarea.  Indices are those of JavaScript, from 0.    *)
(***************************************************************************)

\* text[i], undefined outside the string
CharAt(s, i) == IF i >= 0 /\ i < Len(s) THEN s[i + 1] ELSE "undefined"

\* text.lastIndexOf(ch, from): a negative from counts as 0
LastIndexOf(s, ch, from) ==
    LET top == IF from < 0 THEN 0 ELSE from
        hits == {k \in 0..(Len(s) - 1) : k <= top /\ s[k + 1] = ch}
    IN  IF hits = {} THEN -1 ELSE CHOOSE k \in hits : \A h \in hits : k >= h

\* text.indexOf(ch, from)
IndexOf(s, ch, from) ==
    LET hits == {k \in 0..(Len(s) - 1) : k >= from /\ s[k + 1] = ch}
    IN  IF hits = {} THEN -1 ELSE CHOOSE k \in hits : \A h \in hits : k <= h

\* text.substring(a, b) for 0 <= a <= b
Substring(s, a, b) == SubSeq(s, a + 1, IF b > Len(s) THEN Len(s) ELSE b)

\* the value handed to the visual editor: slice(2, -2) or slice(1, -1), trimmed
CleanContent(raw) ==
    IF StartsAt(raw, 1, <<DL, DL>>) THEN Trim(SubSeq(raw, 3, Len(raw) - 2))
    ELSE IF StartsAt(raw, 1, <<DL>>) THEN Trim(SubSeq(raw, 2, Len(raw) - 1))
    ELSE Trim(raw)

\* the context found, in a sequence of one element, or <<>> for null
findMathContext(text, cursorIndex) ==
    LET leftDollar == LastIndexOf(text, DL, cursorIndex - 1)
        rightDollar == IndexOf(text, DL, cursorIndex)
        isBlockLeft == CharAt(text, leftDollar - 1) = DL
        isBlockRight == CharAt(text, rightDollar + 1) = DL
        startIndex == IF isBlockLeft THEN leftDollar - 1 ELSE leftDollar
        endIndex == IF isBlockRight THEN rightDollar + 2 ELSE rightDollar + 1
        rawContent == Substring(text, startIndex, endIndex)
    IN  IF leftDollar = -1 \/ rightDollar = -1 THEN <<>>
        ELSE <<[start |-> startIndex,
                end |-> endIndex,
                raw |-> rawContent,
                clean |-> CleanContent(rawContent),
                isBlock |-> isBlockLeft /\ isBlockRight]>>

HandleTextareaCursor ==
    \E cursorPos \in 0..Len(content) :
        LET mathCtx == findMathContext(content, cursorPos)
        IN  /\ op' = "handleTextareaCursor"
            /\ selectionStart' = cursorPos
            /\ activeMathBlock' =
                   IF mathCtx # <<>>
                   THEN <<[sourceType |-> "section-content",
                           index |-> 0,
                           start |-> mathCtx[1].start,
                           end |-> mathCtx[1].end,
                           cleanLatex |-> mathCtx[1].clean,
                           isBlock |-> mathCtx[1].isBlock]>>
                   ELSE <<>>
            /\ UNCHANGED <<content, result, shown, segments, calls, document, appVars>>

\* `${wrapper} ${newLatex} ${wrapper}`
NewFormula(newLatex, isBlock) ==
    LET wrapper == IF isBlock THEN <<DL, DL>> ELSE <<DL>>
    IN  wrapper \o <<SP>> \o newLatex \o <<SP>> \o wrapper

\* a slip: the formula is put in, the old one is not taken out
ReplaceTextKeepingOld(original, start, end, newFormula) ==
    Substring(original, 0, start) \o newFormula \o Substring(original, start, Len(original))

\* original.substring(0, start) + newFormula + original.substring(end)
ReplaceText(original, start, end, newFormula) ==
    Substring(original, 0, start) \o newFormula \o Substring(original, end, Len(original))

\* the longest text the editor is followed to, and what the visual editor sends
MaxTextLen == 7
SyncLatex == {<<"y">>, <<"y", "y">>}

HandleMathSyncUpdate ==
    \E newLatex \in SyncLatex :
        /\ Len(content) <= MaxTextLen
        /\ op' = "handleMathSyncUpdate"
        /\ IF activeMathBlock = <<>>
           THEN UNCHANGED <<content, activeMathBlock>>
           ELSE LET block == activeMathBlock[1]
                    newFormula == NewFormula(newLatex, block.isBlock)
                IN  /\ content' = ReplaceText(content, block.start, block.end, newFormula)
                    /\ activeMathBlock' =
                           <<[block EXCEPT !.end = block.start + Len(newFormula),
                                           !.cleanLatex = newLatex]>>
        /\ UNCHANGED <<result, shown, segments, calls, document, selectionStart, appVars>>

MaxEditorChunks == 3

EditorChunks == {<<DL>>, <<DL, DL>>, <<"a">>, <<SP>>, <<DL, "a", DL>>}

InitEditor == InitWith(Words(EditorChunks, MaxEditorChunks))

NextEditor == HandleTextareaCursor \/ HandleMathSyncUpdate

SpecEditor == InitEditor /\ [][NextEditor]_vars

\* the $$...$$ and $...$ fragments of s, left to right, each <<first, last>>
RECURSIVE Fragments(_, _)
Fragments(s, i) ==
    IF i > Len(s) THEN <<>>
    ELSE IF SpanEnd(s, i) > 0 THEN <<<<i, SpanEnd(s, i)>>>> \o Fragments(s, SpanEnd(s, i) + 1)
    ELSE IF CandidateEnd(s, i) > 0
         THEN <<<<i, CandidateEnd(s, i)>>>> \o Fragments(s, CandidateEnd(s, i) + 1)
    ELSE Fragments(s, i + 1)

(***************************************************************************)
(* C27.  findMathContext returns a context only when the cursor lies       *)
(* strictly inside one $...$ or $$...$$ fragment of the text, and then     *)
(* start and end delimit that fragment, delimiters included; for a cursor  *)
(* in the plain text between two fragments (" and " of "$a$ and $b$") or   *)
(* next to an unpaired "$" it returns null.  Fails: the nearest "$" on     *)
(* each side of the cursor are taken as a pair, whatever they delimit.     *)
(***************************************************************************)
C27_ContextIsOneFragment ==
    (op = "handleTextareaCursor" /\ activeMathBlock # <<>>) =>
        \E k \in 1..Len(Fragments(content, 1)) :
            LET f == Fragments(content, 1)[k]
            IN  /\ activeMathBlock[1].start = f[1] - 1
                /\ activeMathBlock[1].end = f[2]
                /\ f[1] - 1 < selectionStart
                /\ selectionStart < f[2]

(***************************************************************************)
(* C28.  Math sync keeps its range aligned: with an active math block set  *)
(* by a cursor event, every handleMathSyncUpdate call leaves the text of   *)
(* the field outside [start, end) as it was, and after it                  *)
(* text.substring(start, end) is wrapper, blank, the latex, blank,         *)
(* wrapper ("$$" for a block, "$" otherwise), activeMathBlock.end is       *)
(* start plus that length and cleanLatex is the latex; start and the kind  *)
(* of the block stay, so the same holds after any sequence of calls.       *)
(***************************************************************************)
SyncStep ==
    LET old == activeMathBlock[1]
        new == activeMathBlock'[1]
        wrapper == IF old.isBlock THEN <<DL, DL>> ELSE <<DL>>
    IN  /\ activeMathBlock' # <<>>
        /\ new.start = old.start
        /\ new.isBlock = old.isBlock
        /\ new.cleanLatex \in SyncLatex
        /\ SubSeq(content', 1, old.start) = SubSeq(content, 1, old.start)
        /\ SubSeq(content', new.end + 1, Len(content')) = SubSeq(content, old.end + 1, Len(content))
        /\ SubSeq(content', new.start + 1, new.end)
               = wrapper \o <<SP>> \o new.cleanLatex \o <<SP>> \o wrapper
        /\ new.end = new.start + 2 * Len(wrapper) + 2 + Len(new.cleanLatex)

C28_SyncKeepsRange ==
    [][(op' = "handleMathSyncUpdate" /\ activeMathBlock # <<>>) => SyncStep]_vars

\* the second of two updates of "$a$" inside "a$a$a"
C28_Witness ==
    /\ op = "handleMathSyncUpdate"
    /\ content = <<"a", DL, SP, "y", "y", SP, DL, "a">>
    /\ activeMathBlock # <<>>
    /\ activeMathBlock[1].start = 1
    /\ activeMathBlock[1].end = 7
    /\ activeMathBlock[1].cleanLatex = <<"y", "y">>

(***************************************************************************)
(* handleGenerate, src/App.tsx:170-191.  The handler runs to its await,    *)
(* and goes on when the promise of generateEvaluation is settled: each     *)
(* call made is an entry of requests, "pending" until then.  The result    *)
(* of call i is written i.                                                 *)
(***************************************************************************)
MaxRequests == 3

NoObjective == "Por favor selecciona un Objetivo de Aprendizaje."
GenerationFailed == "Error de generacion. Verifica tu conexion e intentalo de nuevo."
Generated == "Evaluacion generada con exito!"

\* the markup state, which handleGenerate does not touch
markupVars == <<content, result, shown, segments, calls, document, selectionStart, activeMathBlock>>

\* after mount: under the file: protocol the help dialog is open
InitGenerate ==
    /\ content = <<>>
    /\ op = "idle"
    /\ result = <<>>
    /\ shown = <<>>
    /\ segments = <<>>
    /\ calls = <<>>
    /\ document = <<>>
    /\ selectionStart = 0
    /\ activeMathBlock = <<>>
    /\ isFileProtocol \in BOOLEAN
    /\ showHelp = isFileProtocol
    /\ selectedOA \in BOOLEAN
    /\ isGenerating = FALSE
    /\ error = "null"
    /\ evaluation = 0
    /\ requests = <<>>
    /\ toast = "null"

\* the objective list changes, or the user picks another entry
SelectOA ==
    /\ selectedOA' = ~selectedOA
    /\ op' = "setSelectedOAId"
    /\ UNCHANGED <<markupVars, isFileProtocol, showHelp, isGenerating, error, evaluation,
                   requests, toast>>

\* handleGenerate up to its await
HandleGenerate ==
    /\ op' = "handleGenerate"
    /\ IF isFileProtocol
       THEN /\ showHelp' = TRUE
            /\ UNCHANGED <<isGenerating, error, requests>>
       ELSE IF ~selectedOA
       THEN /\ error' = NoObjective
            /\ UNCHANGED <<showHelp, isGenerating, requests>>
       ELSE /\ Len(requests) < MaxRequests
            /\ isGenerating' = TRUE
            /\ error' = "null"
            /\ requests' = Append(requests, "pending")
            /\ UNCHANGED showHelp
    /\ UNCHANGED <<markupVars, isFileProtocol, selectedOA, evaluation, toast>>

\* the promise of call i is fulfilled: the rest of try, then finally
GenerateResolves(i) ==
    /\ i \in 1..Len(requests)
    /\ requests[i] = "pending"
    /\ requests' = [requests EXCEPT ![i] = "resolved"]
    /\ evaluation' = i
    /\ toast' = Generated
    /\ isGenerating' = FALSE
    /\ op' = "generateEvaluation resolved"
    /\ UNCHANGED <<markupVars, isFileProtocol, showHelp, selectedOA, error>>

\* a slip: no finally, isGenerating is reset at the end of try only
GenerateRejectsNoFinally(i) ==
    /\ i \in 1..Len(requests)
    /\ requests[i] = "pending"
    /\ requests' = [requests EXCEPT ![i] = "rejected"]
    /\ error' = GenerationFailed
    /\ op' = "generateEvaluation rejected"
    /\ UNCHANGED <<markupVars, isFileProtocol, showHelp, selectedOA, evaluation, toast,
                   isGenerating>>

\* the promise of call i is rejected: catch, then finally
GenerateRejects(i) ==
    /\ i \in 1..Len(requests)
    /\ requests[i] = "pending"
    /\ requests' = [requests EXCEPT ![i] = "rejected"]
    /\ error' = GenerationFailed
    /\ isGenerating' = FALSE
    /\ op' = "generateEvaluation rejected"
    /\ UNCHANGED <<markupVars, isFileProtocol, showHelp, selectedOA, evaluation, toast>>

\* setTimeout(() => setToast(null), 4000)
ToastExpires ==
    /\ toast # "null"
    /\ toast' = "null"
    /\ op' = "setToast"
    /\ UNCHANGED <<markupVars, isFileProtocol, showHelp, selectedOA, isGenerating, error,
                   evaluation, requests>>

Settles(i) == GenerateResolves(i) \/ GenerateRejects(i)

NextGenerate ==
    \/ SelectOA
    \/ HandleGenerate
    \/ \E i \in 1..MaxRequests : GenerateResolves(i)
    \/ \E i \in 1..MaxRequests : GenerateRejects(i)
    \/ ToastExpires

SpecGenerate == InitGenerate /\ [][NextGenerate]_vars

\* every promise of generateEvaluation is settled in the end
SpecGenerateLive == SpecGenerate /\ \A i \in 1..MaxRequests : WF_vars(Settles(i))

(***************************************************************************)
(* C29.  Generation always finishes: every handleGenerate call that sets   *)
(* isGenerating to true sets it back to false in the end, whether          *)
(* generateEvaluation resolves or rejects; on rejection an error message   *)
(* is set and the current evaluation is left as it is; under the file:     *)
(* protocol, or with no learning objective selected, isGenerating is not   *)
(* set and generateEvaluation is not called.                               *)
(***************************************************************************)
Pending(i) == i <= Len(requests) /\ requests[i] = "pending"

C29_GenerationFinishes ==
    /\ \A i \in 1..MaxRequests : Pending(i) ~> (~Pending(i) /\ ~isGenerating)
    /\ [][\A i \in 1..MaxRequests :
             (Pending(i) /\ ~Pending(i)') =>
                 /\ isGenerating' = FALSE
                 /\ requests'[i] = "rejected" =>
                        (error' = GenerationFailed /\ evaluation' = evaluation)]_vars
    /\ [][(isGenerating' /\ ~isGenerating) =>
             /\ ~isFileProtocol
             /\ selectedOA
             /\ requests' = Append(requests, "pending")]_vars
    /\ [][(isFileProtocol \/ ~selectedOA) =>
             (Len(requests') = Len(requests) /\ (isGenerating' => isGenerating))]_vars

\* one generation has failed and the next has succeeded
C29_Witness ==
    /\ requests = <<"rejected", "resolved">>
    /\ evaluation = 2
    /\ error = "null"
    /\ ~isGenerating

=============================================================================
